---- MODULE Spec2Model ----
(***************************************************************************)
(* Model of the Sampling kernel (contrib_ops/cpu/transformers/sampling.cc) *)
(* and of the greedy-search base class it drives                           *)
(* (contrib_ops/cpu/transformers/greedy_search_impl_base.h).               *)
(*                                                                         *)
(* One behaviour is a sequence of Sampling::Compute calls on one kernel.   *)
(* The position inside a call is pc; GenerateNextToken is split at its     *)
(* four statements so that their order is observable.                      *)
(*                                                                         *)
(* The js provider's DataTransfer (core/providers/js/data_transfer.cc) is  *)
(* modelled next to it, with its own specification SpecDT.                 *)
(***************************************************************************)
EXTENDS Integers, Sequences, FiniteSets, TLC

\* ---------------------------------------------------------------- bounds
MaxBatch == 2        \* largest batch_size of input_ids
MaxPrompt == 2       \* largest prompt length (sequence_length) of input_ids
MaxLenInput == 3     \* largest value carried by the max_length input
VocabSize == 2       \* tokens are 0 .. VocabSize-1
MaxCalls == 2        \* Compute calls per behaviour
MaxBytes == 2        \* largest SizeInBytes of a copied tensor

\* ---------------------------------------------------------------- statuses
\* common::Status as (code, message, the input it names, what it reports)
MkStatus(code, msg, name, gotKind, got) ==
  [code |-> code, msg |-> msg, name |-> name, gotKind |-> gotKind, got |-> got]

StatusOK == MkStatus("OK", "", "", "none", <<>>)

IsOK(st) == st.code = "OK"

\* failures the external collaborators can report
AllocFailure == MkStatus("FAIL", "temp space allocator", "", "none", <<>>)
SubgraphFailure == MkStatus("FAIL", "subgraph", "", "none", <<>>)
ProcessLogitsFailures ==
  { MkStatus("FAIL", "process_logits", "", "none", <<>>),
    MkStatus("EP_FAIL", "process_logits", "", "none", <<>>) }
DeviceCopyFailures ==
  { MkStatus("FAIL", "device_copy", "", "none", <<>>),
    MkStatus("EP_FAIL", "device_copy", "", "none", <<>>) }
UpdateFeedsFailure == MkStatus("FAIL", "update_feeds", "", "none", <<>>)

\* ---------------------------------------------------------------- tensors
\* a run input: absent, or a tensor with a shape and its first element
AbsentTensor == [present |-> FALSE, shape |-> <<>>, value |-> 0]
MkTensor(shape, value) == [present |-> TRUE, shape |-> shape, value |-> value]

IsScalar(shape) == Len(shape) = 0 \/ shape = <<1>>

MaxLengthInputs ==
  {AbsentTensor} \cup {MkTensor(<<>>, v) : v \in 1..MaxLenInput}
                 \cup {MkTensor(<<2>>, 1)}
MinLengthInputs ==
  {AbsentTensor, MkTensor(<<1>>, 0), MkTensor(<<2, 1>>, 0)}
InputIdsShapes ==
  {<<b, s>> : b \in 1..MaxBatch, s \in 1..MaxPrompt} \cup {<<2>>, <<1, 2, 1>>}
AllocStatuses == {StatusOK, AllocFailure}

Vocab == 0..(VocabSize - 1)

\* the vocab_mask input, as the set of disallowed token ids: none, or the last token
VocabMaskInputs == {{}, {VocabSize - 1}}

\* the device functions a kernel can have injected
Fp32Funcs == {"add_to_feeds", "topk", "process_logits", "init_greedy_state",
              "device_copy", "update_gpt_feeds"}
Fp16Funcs == {"process_logits_fp16", "init_greedy_state_fp16", "update_gpt_feeds_fp16"}

\* the kernels that exist: the CPU kernel (no stream, nothing injected) and the
\* CUDA kernel (a stream, and the float or the float and float16 functions injected)
KernelBackends ==
  { [cuda_stream |-> "null", registered |-> {}],
    [cuda_stream |-> "stream", registered |-> Fp32Funcs],
    [cuda_stream |-> "stream", registered |-> Fp32Funcs \cup Fp16Funcs] }

\* SamplingParameters as held by the kernel after construction: a kernel configured
\* for plain greedy output, or one configured with scores and an n-gram filter
KernelParameters ==
  { [model_type |-> mt, output_scores |-> os,
     no_repeat_ngram_size |-> IF os THEN 2 ELSE 0,
     eos_token_id |-> 0, pad_token_id |-> 0, vocab_size |-> VocabSize,
     batch_size |-> 0, sequence_length |-> 0, max_length |-> 0, min_length |-> 0,
     vocab_mask |-> {}]
    : mt \in {0, 1}, os \in BOOLEAN }

\* ---------------------------------------------------------------- state
VARIABLES
  parameters_,      \* Sampling::parameters_ (kernel member)
  is_fp16,          \* gpt_subgraph_->IsOutputFloat16()
  cuda_stream_,     \* "null" or "stream"
  registered,       \* device functions injected into the kernel
  ffm,              \* decoder_feeds_fetches_manager_ has been created
  ctx,              \* OpKernelContext of the current call
  pc,               \* position inside Compute
  parameters,       \* Compute's local copy of parameters_
  funcs,            \* device functions handed to impl
  logits_processors_, \* GreedySearchBase::logits_processors_
  initStatus,       \* what impl.Initialize() returned
  initCalls,        \* Initialize invocations in this call
  execCalls,        \* Execute invocations in this call
  sequences,        \* cpu_state.sequences: token rows and the current length
  finished,         \* per batch entry: EOS has been appended
  counter,          \* iteration counter of the loop
  gntIdx,           \* position inside GenerateNextToken
  scorer,           \* next tokens / indices / scores held by the scorer
  beam_next,        \* beam_next_tokens / beam_indices spans
  beam_scores,      \* beam_state.beam_scores
  gntStatus,        \* what GenerateNextToken returned
  hist,             \* history of the current step and run (ghost)
  result,           \* how Compute ended: "none", "returned", "threw"
  retStatus,        \* status Compute returned
  output,           \* output tensor written by the run
  callNo,           \* completed Compute calls
  dt_op,            \* last DataTransfer call: "none", "CanCopy", "CopyTensor"
  dt_src,           \* src of that call: device type and bytes
  dt_dst,           \* dst of that call, after the call
  dt_can,           \* what CanCopy returned
  dt_paths          \* the transfer paths CopyTensor took, in order

kernelVars == <<parameters_, is_fp16, cuda_stream_, registered, ffm>>
setupVars == <<ctx, parameters, funcs>>
initVars == <<logits_processors_, initStatus, initCalls>>
loopVars == <<sequences, finished, counter>>
stepVars == <<gntIdx, scorer, beam_next, beam_scores, gntStatus>>
endVars == <<result, retStatus, output>>
samplingVars == <<kernelVars, setupVars, initVars, loopVars, stepVars, endVars,
                  pc, execCalls, hist, callNo>>
dtVars == <<dt_op, dt_src, dt_dst, dt_can, dt_paths>>
vars == <<samplingVars, dtVars>>

\* ---------------------------------------------------------------- per-call reset values
NoCtx == [decoder |-> TRUE, input_ids |-> <<>>, max_length |-> AbsentTensor,
          min_length |-> AbsentTensor, vocab_mask |-> {}, alloc |-> StatusOK]
NoFuncs == [f \in Fp32Funcs |-> "unset"]
NoProcessors == [inited |-> FALSE, no_repeat_ngram_size |-> 0, min_length |-> 0,
                 vocab_mask |-> {}]
NoSequences == [tokens |-> <<>>, current_length |-> 0]
NoScorer == [next_tokens |-> <<>>, next_indices |-> <<>>, producedAt |-> 0]
NoBeamNext == [tokens |-> <<>>, indices |-> <<>>, producedAt |-> 0]
NoOutput == [written |-> FALSE, sequences |-> <<>>, scores |-> FALSE]
NoHist == [ops |-> <<>>, seqBefore |-> NoSequences, failure |-> StatusOK,
           stepsDone |-> 0, appendedAt |-> 0, appendedFrom |-> 0,
           promptLen |-> 0]

CallReset ==
  /\ ctx = NoCtx
  /\ funcs = NoFuncs
  /\ logits_processors_ = NoProcessors
  /\ initStatus = StatusOK
  /\ initCalls = 0
  /\ execCalls = 0
  /\ sequences = NoSequences
  /\ finished = <<>>
  /\ counter = 0
  /\ gntIdx = 0
  /\ scorer = NoScorer
  /\ beam_next = NoBeamNext
  /\ beam_scores = 0
  /\ gntStatus = StatusOK
  /\ hist = NoHist
  /\ result = "none"
  /\ retStatus = StatusOK
  /\ output = NoOutput

\* no DataTransfer call has been made
NoTensor == [device |-> "CPU", data |-> <<>>]
DtIdle ==
  /\ dt_op = "none"
  /\ dt_src = NoTensor
  /\ dt_dst = NoTensor
  /\ dt_can = FALSE
  /\ dt_paths = <<>>

Init ==
  /\ DtIdle
  /\ parameters_ \in KernelParameters
  /\ is_fp16 \in BOOLEAN
  /\ \E k \in KernelBackends :
       /\ cuda_stream_ = k.cuda_stream
       /\ registered = k.registered
  /\ ffm \in BOOLEAN
  /\ parameters = parameters_
  /\ pc = "Idle"
  /\ callNo = 0
  /\ CallReset

\* ---------------------------------------------------------------- Sampling::Compute, entry
\* the six device functions handed to GreedySearchGpt<float> / <MLFloat16>
SelectFuncs(reg, fp16) ==
  LET orCpu(f) == IF f \in reg THEN "injected" ELSE "cpu"
      raw(f) == IF f \in reg THEN "injected" ELSE "null"
  IN IF ~fp16
     THEN [f \in Fp32Funcs |-> orCpu(f)]
     ELSE [f \in Fp32Funcs |->
             CASE f = "add_to_feeds" -> orCpu(f)
               [] f = "topk" -> orCpu(f)
               [] f = "process_logits" -> raw("process_logits_fp16")
               [] f = "init_greedy_state" -> raw("init_greedy_state_fp16")
               [] f = "device_copy" -> raw("device_copy")
               [] f = "update_gpt_feeds" -> raw("update_gpt_feeds_fp16")]

\* SamplingParameters::ParseFromInputs, called by the GreedySearchBase constructor:
\* takes the run's sizes from the inputs, validates nothing
ParseFromInputs(p, c) ==
  [p EXCEPT !.batch_size = IF Len(c.input_ids) = 2 THEN c.input_ids[1] ELSE @,
            !.sequence_length = IF Len(c.input_ids) = 2 THEN c.input_ids[2] ELSE @,
            !.max_length = IF c.max_length.present THEN c.max_length.value ELSE @,
            !.min_length = IF c.min_length.present THEN c.min_length.value ELSE @]

AllCtx ==
  [decoder : {TRUE}, input_ids : InputIdsShapes, max_length : MaxLengthInputs,
   min_length : MinLengthInputs, vocab_mask : VocabMaskInputs, alloc : AllocStatuses]

\* the contexts a call can be made with; inputs the call never reads stay at their default
CtxChoices ==
  {[NoCtx EXCEPT !.decoder = FALSE]} \cup
  (IF ffm /\ parameters_.model_type = 0 THEN AllCtx ELSE {NoCtx})

Throw ==
  /\ pc' = "Done"
  /\ result' = "threw"
  /\ UNCHANGED <<retStatus, output>>

Return(st) ==
  /\ pc' = "Done"
  /\ result' = "returned"
  /\ retStatus' = st
  /\ UNCHANGED output

\* Compute handing its kernel member parameters_ to impl
ImplParametersKernel == "kernel"

\* the SamplingParameters object impl is constructed over: Compute's local copy
ImplParameters == "copy"

\* kernel members no statement of Compute or of impl assigns
constKernelVars == <<is_fp16, cuda_stream_, registered, ffm>>

\* Compute that checks the subgraph session state only
EnforcesHoldDecoderOnly(c) == c.decoder

\* the two ORT_ENFORCE at the top of Compute
EnforcesHold(c) == c.decoder /\ ffm

ComputeEnter ==
  /\ pc = "Idle"
  /\ callNo < MaxCalls
  /\ \E c \in CtxChoices :
       /\ ctx' = c
       /\ IF ~EnforcesHold(c)
          THEN /\ Throw
               /\ UNCHANGED <<parameters, parameters_, funcs>>
          ELSE IF parameters_.model_type = 0
          THEN /\ parameters' = ParseFromInputs(parameters_, c)
               /\ parameters_' = IF ImplParameters = "kernel"
                                 THEN ParseFromInputs(parameters_, c)
                                 ELSE parameters_
               /\ funcs' = SelectFuncs(registered, is_fp16)
               /\ pc' = "Constructed"
               /\ UNCHANGED endVars
          ELSE /\ parameters' = parameters_
               /\ Return(StatusOK)
               /\ UNCHANGED <<parameters_, funcs>>
  /\ UNCHANGED <<dtVars, constKernelVars, initVars, loopVars, stepVars, execCalls,
                 hist, callNo>>

\* ---------------------------------------------------------------- GreedySearchBase::Initialize
CHECK_SCALAR_INPUT(name, tensor, required) ==
  IF tensor.present
  THEN IF ~IsScalar(tensor.shape)
       THEN MkStatus("FAIL", "should be a scalar", name, "shape", tensor.shape)
       ELSE StatusOK
  ELSE IF required
       THEN MkStatus("FAIL", "is required", name, "none", <<>>)
       ELSE StatusOK

CheckInputs(c) ==
  IF Len(c.input_ids) # 2
  THEN MkStatus("INVALID_ARGUMENT", "is expected to have 2 dimensions", "input_ids",
                "rank", <<Len(c.input_ids)>>)
  ELSE StatusOK

\* Initialize that validates input_ids before the two scalars
InitializeStatusIdsFirst(c) ==
  LET maxSt == CHECK_SCALAR_INPUT("max_length", c.max_length, TRUE)
      minSt == CHECK_SCALAR_INPUT("min_length", c.min_length, FALSE)
  IN IF ~IsOK(c.alloc) THEN c.alloc
     ELSE IF ~IsOK(CheckInputs(c)) THEN CheckInputs(c)
     ELSE IF ~IsOK(maxSt) THEN maxSt
     ELSE minSt

\* the status Initialize returns: the first check that fails
InitializeStatus(c) ==
  LET maxSt == CHECK_SCALAR_INPUT("max_length", c.max_length, TRUE)
      minSt == CHECK_SCALAR_INPUT("min_length", c.min_length, FALSE)
  IN IF ~IsOK(c.alloc) THEN c.alloc
     ELSE IF ~IsOK(maxSt) THEN maxSt
     ELSE IF ~IsOK(minSt) THEN minSt
     ELSE CheckInputs(c)

\* Initialize that forgets to switch score output off
InitializeParamsKeepScores(p) ==
  [p EXCEPT !.no_repeat_ngram_size = 0]

\* the parameter updates of a successful Initialize
InitializeParams(p) ==
  [p EXCEPT !.output_scores = FALSE, !.no_repeat_ngram_size = 0]

IsCuda == cuda_stream_ # "null"

\* LogitsProcessorList::Init(parameters)
ProcessorsInit(p) ==
  [inited |-> TRUE, no_repeat_ngram_size |-> p.no_repeat_ngram_size,
   min_length |-> p.min_length, vocab_mask |-> p.vocab_mask]

\* Initialize that updates the parameters and the processors before it validates
InitializeUpdatesAlways(st) == TRUE

\* the assignments below the checks are reached only when every check passed
InitializeUpdates(st) == IsOK(st)

\* Initialize that builds the processors before it adjusts the parameters
ProcessorsArgUnadjusted(p) == p

\* logits_processors_.Init(*parameters_) runs after the two assignments to *parameters_
ProcessorsArg(p) == InitializeParams(p)

Initialize ==
  /\ pc = "Constructed"
  /\ initCalls' = initCalls + 1
  /\ initStatus' = InitializeStatus(ctx)
  /\ IF InitializeUpdates(InitializeStatus(ctx))
     THEN /\ parameters' = InitializeParams(parameters)
          /\ parameters_' = IF ImplParameters = "kernel"
                            THEN InitializeParams(parameters_)
                            ELSE parameters_
          /\ logits_processors_' =
               IF ~IsCuda THEN ProcessorsInit(ProcessorsArg(parameters))
               ELSE logits_processors_
     ELSE UNCHANGED <<parameters, parameters_, logits_processors_>>
  /\ pc' = "InitReturned"
  /\ UNCHANGED <<dtVars, constKernelVars, ctx, funcs, loopVars, stepVars, endVars,
                 execCalls, hist, callNo>>

\* ---------------------------------------------------------------- Sampling::Compute, after Initialize
\* Compute that runs Execute whatever Initialize returned
ComputeNextPcUnchecked(st) == "Execute"

\* Compute that calls Initialize again after it failed
ComputeNextPcRetry(st) == IF IsOK(st) THEN "Execute" ELSE "Constructed"

\* ORT_RETURN_IF_ERROR(impl.Initialize()); return impl.Execute(...)
ComputeNextPc(st) == IF IsOK(st) THEN "Execute" ELSE "Done"

\* SequenceStore.initialize: one row per batch entry holding the prompt
PromptRow(len) == [j \in 1..len |-> 1]
InitSequences(p) ==
  [tokens |-> [b \in 1..p.batch_size |-> PromptRow(p.sequence_length)],
   current_length |-> p.sequence_length]

ComputeAfterInit ==
  /\ pc = "InitReturned"
  /\ CASE ComputeNextPc(initStatus) = "Done" ->
            /\ Return(initStatus)
            /\ UNCHANGED <<execCalls, sequences, finished, hist>>
       [] ComputeNextPc(initStatus) = "Execute" ->
            /\ execCalls' = execCalls + 1
            /\ sequences' = InitSequences(parameters)
            /\ finished' = [b \in 1..parameters.batch_size |-> FALSE]
            /\ hist' = [hist EXCEPT !.promptLen = parameters.sequence_length]
            /\ pc' = "LoopTop"
            /\ UNCHANGED endVars
       [] OTHER ->
            /\ pc' = ComputeNextPc(initStatus)
            /\ UNCHANGED <<execCalls, sequences, finished, hist, endVars>>
  /\ UNCHANGED <<dtVars, kernelVars, setupVars, initVars, counter, stepVars, callNo>>

\* ---------------------------------------------------------------- Execute: the decoding loop
AllFinished == \A b \in DOMAIN finished : finished[b]

\* Stepping -> Finalizing when every sequence is finished or the length reached max_length
LoopDone == AllFinished \/ sequences.current_length = parameters.max_length

LoopCheck ==
  /\ pc = "LoopTop"
  /\ pc' = IF LoopDone THEN "Finalizing" ELSE "Subgraph"
  /\ UNCHANGED <<dtVars, kernelVars, setupVars, initVars, loopVars, stepVars, endVars,
                 execCalls, hist, callNo>>

\* invoke the external subgraph, then enter GenerateNextToken with its logits
RunSubgraph ==
  /\ pc = "Subgraph"
  /\ counter < MaxLenInput - 1
  /\ \E ok \in BOOLEAN :
       IF ok
       THEN /\ counter' = counter + 1
            /\ gntIdx' = 1
            /\ pc' = "GNT"
            /\ hist' = [hist EXCEPT !.ops = <<>>, !.seqBefore = sequences,
                                    !.failure = StatusOK]
            /\ UNCHANGED endVars
       ELSE /\ Return(SubgraphFailure)
            /\ UNCHANGED <<counter, gntIdx, hist>>
  /\ UNCHANGED <<dtVars, kernelVars, setupVars, initVars, sequences, finished,
                 scorer, beam_next, beam_scores, gntStatus, execCalls, callNo>>

\* ---------------------------------------------------------------- GreedySearchBase::GenerateNextToken
\* GenerateNextToken that reads the selected tokens before processing the logits
GntOrderReadFirst == <<"read_next", "process_logits", "device_copy", "append">>

\* GenerateNextToken that never appends
GntOrderNoAppend == <<"process_logits", "device_copy", "read_next">>

\* the statements of GenerateNextToken, in program order
GntOrder == <<"process_logits", "device_copy", "read_next", "append">>

\* GenerateNextToken that drops the status of process_logits and of the copy
GntContinueAlways(st) == TRUE

\* ORT_RETURN_IF_ERROR inside GenerateNextToken
GntContinue(st) == IsOK(st)

AtGnt(stmt) == pc = "GNT" /\ gntIdx \in 1..Len(GntOrder) /\ GntOrder[gntIdx] = stmt

\* fall through to the next statement, or to "return Status::OK()" after the last one
GntStepDone ==
  IF gntIdx = Len(GntOrder)
  THEN pc' = "GNT_Returned" /\ gntIdx' = 0 /\ gntStatus' = StatusOK
  ELSE pc' = pc /\ gntIdx' = gntIdx + 1 /\ gntStatus' = gntStatus

GntReturn(st) == pc' = "GNT_Returned" /\ gntIdx' = 0 /\ gntStatus' = st

\* the logits of one subgraph call, as the token each row scores highest:
\* the same token in every row, or EOS in the first row only
FavouredTokens(p, rows) ==
  {[b \in rows |-> t] : t \in 0..(p.vocab_size - 1)} \cup
  {[b \in rows |-> IF b = 1 THEN p.eos_token_id ELSE p.vocab_size - 1]}

\* the vocabulary mask the logits pass through: the processor list's on CPU,
\* the parameters' (read by the CUDA kernels) on CUDA
ActiveMask ==
  IF IsCuda THEN parameters.vocab_mask
  ELSE IF logits_processors_.inited THEN logits_processors_.vocab_mask
  ELSE {}

\* argmax after masking: the favoured token, or the lowest allowed one when it is masked
Argmax(t, mask, p) ==
  LET allowed == (0..(p.vocab_size - 1)) \ mask
  IN IF t \notin mask \/ allowed = {} THEN t
     ELSE CHOOSE a \in allowed : \A a2 \in allowed : a <= a2

\* the tokens process_logits selects: the argmax for a live row,
\* padding for a finished one
SelectedTokens(p, fin, mask) ==
  {[b \in DOMAIN fin |-> IF fin[b] THEN p.pad_token_id ELSE Argmax(f[b], mask, p)]
     : f \in FavouredTokens(p, DOMAIN fin)}

\* ProcessLogits: calls process_logits_func_
GntProcessLogits ==
  /\ AtGnt("process_logits")
  /\ IF funcs["process_logits"] = "null"
     THEN /\ Throw
          /\ UNCHANGED <<gntIdx, gntStatus, scorer, hist>>
     ELSE \E st \in {StatusOK} \cup ProcessLogitsFailures :
            /\ hist' = [hist EXCEPT !.ops = Append(@, "process_logits"),
                                    !.failure = IF IsOK(st) THEN @ ELSE st]
            /\ IF IsOK(st)
               THEN \E t \in SelectedTokens(parameters, finished, ActiveMask) :
                      scorer' = [next_tokens |-> t,
                                 next_indices |-> [b \in DOMAIN finished |-> b],
                                 producedAt |-> counter]
               ELSE UNCHANGED scorer
            /\ IF GntContinue(st) THEN GntStepDone ELSE GntReturn(st)
            /\ UNCHANGED endVars
  /\ UNCHANGED <<dtVars, kernelVars, setupVars, initVars, loopVars, beam_next, beam_scores,
                 execCalls, callNo>>

\* device_copy_func_(beam_state.beam_scores, beam_scores, ...)
GntDeviceCopy ==
  /\ AtGnt("device_copy")
  /\ IF funcs["device_copy"] = "null"
     THEN /\ Throw
          /\ UNCHANGED <<gntIdx, gntStatus, beam_scores, hist>>
     ELSE \E st \in {StatusOK} \cup DeviceCopyFailures :
            /\ hist' = [hist EXCEPT !.ops = Append(@, "device_copy"),
                                    !.failure = IF IsOK(st) THEN @ ELSE st]
            /\ beam_scores' = IF IsOK(st) THEN scorer.producedAt ELSE beam_scores
            /\ IF GntContinue(st) THEN GntStepDone ELSE GntReturn(st)
            /\ UNCHANGED endVars
  /\ UNCHANGED <<dtVars, kernelVars, setupVars, initVars, loopVars, scorer, beam_next,
                 execCalls, callNo>>

\* beam_next_tokens = GetNextTokens(); beam_indices = GetNextIndices()
GntReadNext ==
  /\ AtGnt("read_next")
  /\ beam_next' = [tokens |-> scorer.next_tokens, indices |-> scorer.next_indices,
                   producedAt |-> scorer.producedAt]
  /\ hist' = [hist EXCEPT !.ops = Append(@, "read_next")]
  /\ GntStepDone
  /\ UNCHANGED <<dtVars, kernelVars, setupVars, initVars, loopVars, scorer, beam_scores,
                 endVars, execCalls, callNo>>

\* Sequences::AppendNextTokenToSequences: every row continues the row beam_indices names
\* by one token, and the current length grows by one
AppendNextTokenToSequences(seqs, indices, tokens, pad) ==
  [tokens |-> [b \in DOMAIN seqs.tokens |->
                 Append(IF b \in DOMAIN indices THEN seqs.tokens[indices[b]]
                        ELSE seqs.tokens[b],
                        IF b \in DOMAIN tokens THEN tokens[b] ELSE pad)],
   current_length |-> seqs.current_length + 1]

GntAppend ==
  /\ AtGnt("append")
  /\ sequences' = AppendNextTokenToSequences(sequences, beam_next.indices,
                                             beam_next.tokens, parameters.pad_token_id)
  /\ hist' = [hist EXCEPT !.ops = Append(@, "append"),
                          !.appendedAt = counter,
                          !.appendedFrom = beam_next.producedAt]
  /\ GntStepDone
  /\ UNCHANGED <<dtVars, kernelVars, setupVars, initVars, finished, counter, scorer,
                 beam_next, beam_scores, endVars, execCalls, callNo>>

\* ---------------------------------------------------------------- Execute: after GenerateNextToken
\* a row is finished once EOS has been appended to it
UpdateFinished(fin, seqs, p) ==
  [b \in DOMAIN fin |->
     fin[b] \/ (Len(seqs.tokens[b]) > 0
                /\ seqs.tokens[b][Len(seqs.tokens[b])] = p.eos_token_id)]

ExecuteAfterGNT ==
  /\ pc = "GNT_Returned"
  /\ IF ~IsOK(gntStatus)
     THEN /\ Return(gntStatus)
          /\ UNCHANGED <<finished, hist>>
     ELSE /\ finished' = UpdateFinished(finished, sequences, parameters)
          /\ hist' = [hist EXCEPT !.stepsDone = @ + 1]
          /\ IF funcs["update_gpt_feeds"] = "null"
             THEN Throw
             ELSE \E ok \in BOOLEAN :
                    IF ok THEN pc' = "LoopTop" /\ UNCHANGED endVars
                    ELSE Return(UpdateFeedsFailure)
  /\ UNCHANGED <<dtVars, kernelVars, setupVars, initVars, sequences, counter, stepVars,
                 execCalls, callNo>>

\* Finalizing: the sequences are written to the output
Finalize ==
  /\ pc = "Finalizing"
  /\ output' = [written |-> TRUE, sequences |-> sequences.tokens,
                scores |-> parameters.output_scores]
  /\ pc' = "Done"
  /\ result' = "returned"
  /\ retStatus' = StatusOK
  /\ UNCHANGED <<dtVars, kernelVars, setupVars, initVars, loopVars, stepVars,
                 execCalls, hist, callNo>>

\* ---------------------------------------------------------------- end of a call
\* Compute has returned or thrown; impl and the parameter copy are destroyed
ComputeReturn ==
  /\ pc = "Done"
  /\ callNo' = callNo + 1
  /\ pc' = "Idle"
  /\ parameters' = parameters_
  /\ ctx' = NoCtx
  /\ funcs' = NoFuncs
  /\ logits_processors_' = NoProcessors
  /\ initStatus' = StatusOK
  /\ initCalls' = 0
  /\ execCalls' = 0
  /\ sequences' = NoSequences
  /\ finished' = <<>>
  /\ counter' = 0
  /\ gntIdx' = 0
  /\ scorer' = NoScorer
  /\ beam_next' = NoBeamNext
  /\ beam_scores' = 0
  /\ gntStatus' = StatusOK
  /\ hist' = NoHist
  /\ result' = "none"
  /\ retStatus' = StatusOK
  /\ output' = NoOutput
  /\ UNCHANGED <<dtVars, kernelVars>>

Next ==
  \/ ComputeEnter
  \/ Initialize
  \/ ComputeAfterInit
  \/ LoopCheck
  \/ RunSubgraph
  \/ GntProcessLogits
  \/ GntDeviceCopy
  \/ GntReadNext
  \/ GntAppend
  \/ ExecuteAfterGNT
  \/ Finalize
  \/ ComputeReturn

Spec == Init /\ [][Next]_vars

\* ---------------------------------------------------------------- js::DataTransfer
\* OrtDevice device types
DeviceTypes == {"CPU", "GPU", "FPGA"}

Bytes(n) == [1..n -> {0, 1}]

\* src and dst of one copy: any two devices, buffers of the same size
TensorPairs ==
  UNION { {[src |-> [device |-> sd, data |-> a], dst |-> [device |-> dd, data |-> b]]
             : sd \in DeviceTypes, dd \in DeviceTypes, a \in Bytes(n), b \in Bytes(n)}
          : n \in 0..MaxBytes }

\* CanCopy that accepts whenever a GPU is involved
CanCopyAnyGpu(src_device, dst_device) ==
  dst_device = "GPU" \/ src_device = "GPU"

\* CanCopy that accepts the upload direction only
CanCopyUploadOnly(src_device, dst_device) ==
  dst_device = "GPU" /\ src_device = "CPU"

\* DataTransfer::CanCopy
CanCopy(src_device, dst_device) ==
  \/ (dst_device = "GPU" /\ src_device = "CPU")
  \/ (dst_device = "CPU" /\ src_device = "GPU")

\* CopyTensor with three independent ifs in place of the else-if chain
CopyPathsNoElse(src_device, dst_device) ==
  (IF dst_device = "GPU" THEN <<"upload">> ELSE <<>>) \o
  (IF src_device = "GPU" THEN <<"download">> ELSE <<>>) \o
  (IF dst_device # "GPU" /\ src_device # "GPU" THEN <<"memcpy">> ELSE <<>>)

\* the if / else-if / else chain of DataTransfer::CopyTensor
CopyPaths(src_device, dst_device) ==
  IF dst_device = "GPU" THEN <<"upload">>
  ELSE IF src_device = "GPU" THEN <<"download">>
  ELSE <<"memcpy">>

\* memcpy(dst_data, src_data, bytes)
Memcpy(dst_data, src_data, bytes) ==
  [i \in DOMAIN dst_data |-> IF i <= bytes THEN src_data[i] ELSE dst_data[i]]

CanCopyCall ==
  /\ \E sd \in DeviceTypes, dd \in DeviceTypes :
       /\ dt_src' = [device |-> sd, data |-> <<>>]
       /\ dt_dst' = [device |-> dd, data |-> <<>>]
       /\ dt_can' = CanCopy(sd, dd)
  /\ dt_op' = "CanCopy"
  /\ dt_paths' = <<>>
  /\ UNCHANGED samplingVars

\* the upload and download paths call into the JavaScript side without arguments;
\* the C++ code itself writes dst only on the memcpy path
CopyTensor ==
  /\ \E t \in TensorPairs :
       LET bytes == Len(t.src.data)
           paths == CopyPaths(t.src.device, t.dst.device)
       IN /\ dt_src' = t.src
          /\ dt_paths' = paths
          /\ dt_dst' = IF \E i \in DOMAIN paths : paths[i] = "memcpy"
                       THEN [t.dst EXCEPT !.data = Memcpy(t.dst.data, t.src.data, bytes)]
                       ELSE t.dst
  /\ dt_op' = "CopyTensor"
  /\ dt_can' = FALSE
  /\ UNCHANGED samplingVars

NextDT ==
  \/ CanCopyCall
  \/ CopyTensor

\* one idle kernel, and the DataTransfer calls
InitDT ==
  /\ Init
  /\ parameters_.model_type = 0
  /\ ~parameters_.output_scores
  /\ ~is_fp16
  /\ cuda_stream_ = "null"
  /\ ffm

SpecDT == InitDT /\ [][NextDT]_vars

TypeOK ==
  /\ pc \in {"Idle", "Constructed", "InitReturned", "LoopTop", "Subgraph", "GNT",
             "GNT_Returned", "Finalizing", "Done"}
  /\ result \in {"none", "returned", "threw"}
  /\ initCalls \in 0..MaxCalls + 1
  /\ callNo \in 0..MaxCalls

\* ================================================================ properties

IsPrefix(s, t) == Len(s) <= Len(t) /\ \A i \in 1..Len(s) : s[i] = t[i]

\* Initialize has been invoked in the current call and has returned
InitializeReturned == initCalls >= 1

\* ---------------------------------------------------------------- C1
\* C1: when Initialize returns a non-OK status, Execute is not invoked in that
\* call, the loop is never entered, and Compute returns that same status.
C1_InitErrorStopsRun ==
  (InitializeReturned /\ ~IsOK(initStatus)) =>
    /\ execCalls = 0
    /\ pc \in {"InitReturned", "Done"}
    /\ sequences = NoSequences
    /\ pc = "Done" => (result = "returned" /\ retStatus = initStatus)

C1_Witness ==
  /\ pc = "Done"
  /\ result = "returned"
  /\ initStatus.name = "min_length"
  /\ retStatus = initStatus

\* ---------------------------------------------------------------- C2
\* the inputs of a context that violate their shape constraint, and their shapes
ShapeViolations(c) ==
  {n \in {"max_length"} : c.max_length.present /\ ~IsScalar(c.max_length.shape)} \cup
  {n \in {"min_length"} : c.min_length.present /\ ~IsScalar(c.min_length.shape)} \cup
  {n \in {"input_ids"} : Len(c.input_ids) # 2}

ShapeOfInput(c, n) ==
  CASE n = "max_length" -> c.max_length.shape
    [] n = "min_length" -> c.min_length.shape
    [] OTHER -> c.input_ids

\* C2: a violated shape constraint makes Initialize fail with InvalidArgument,
\* naming an offending input and reporting that input's actual shape (its
\* dimensions, or the number of them).
C2_ShapeErrorIsInvalidArgument ==
  (pc = "InitReturned" /\ IsOK(ctx.alloc) /\ ctx.max_length.present
     /\ ShapeViolations(ctx) # {}) =>
    /\ initStatus.code = "INVALID_ARGUMENT"
    /\ initStatus.name \in ShapeViolations(ctx)
    /\ \/ (initStatus.gotKind = "shape"
            /\ initStatus.got = ShapeOfInput(ctx, initStatus.name))
       \/ (initStatus.gotKind = "rank"
            /\ initStatus.got = <<Len(ShapeOfInput(ctx, initStatus.name))>>)

\* ---------------------------------------------------------------- C3
\* C3: the status for a missing max_length carries a condition different from
\* the one reported for a max_length that is present but not a scalar.
C3_MissingDiffersFromWrongShape ==
  (pc = "InitReturned" /\ IsOK(ctx.alloc) /\ ~ctx.max_length.present) =>
    /\ ~IsOK(initStatus)
    /\ \A t \in MaxLengthInputs :
         (t.present /\ ~IsScalar(t.shape)) =>
           InitializeStatus([ctx EXCEPT !.max_length = t]).code # initStatus.code

PhaseRank(p) ==
  CASE p \in {"Idle", "Constructed", "InitReturned"} -> 0      \* Initializing
    [] p \in {"LoopTop", "Subgraph", "GNT", "GNT_Returned"} -> 1  \* Stepping
    [] p = "Finalizing" -> 2
    [] OTHER -> 3                                                \* Done

ErrorSeen ==
  \/ ~IsOK(initStatus)
  \/ ~IsOK(gntStatus)
  \/ result = "threw"
  \/ (result = "returned" /\ ~IsOK(retStatus))

\* C5: within one Compute call the phases only move forward, Initialize runs at
\* most once and before Execute, Execute runs at most once, and after an error
\* neither is invoked again.
C5_NoWayBack ==
  [][ callNo' = callNo =>
        /\ PhaseRank(pc') >= PhaseRank(pc)
        /\ initCalls' <= 1
        /\ execCalls' <= 1
        /\ initCalls' > initCalls => (execCalls = 0 /\ PhaseRank(pc) = 0)
        /\ execCalls' > execCalls => (initCalls = 1 /\ PhaseRank(pc) = 0)
        /\ ErrorSeen => (initCalls' = initCalls /\ execCalls' = execCalls) ]_vars

C5_Witness ==
  /\ pc = "Done"
  /\ initCalls = 1
  /\ execCalls = 1
  /\ output.written
  /\ hist.stepsDone >= 2

\* ---------------------------------------------------------------- C6
\* C6: the statements of a step run in the order process_logits, copy, read of
\* the next tokens, append; the appended tokens are those process_logits
\* produced in the same step; a step starts only when all earlier appends are done.
C6_StepOrder ==
  /\ IsPrefix(hist.ops, <<"process_logits", "device_copy", "read_next", "append">>)
  /\ hist.appendedAt # 0 =>
       (hist.appendedFrom = hist.appendedAt /\ hist.appendedAt <= counter)
  /\ pc = "GNT" =>
       /\ hist.stepsDone = counter - 1
       /\ hist.seqBefore.current_length = hist.promptLen + counter - 1
       /\ hist.appendedAt \in {counter - 1, counter}

C6_Witness ==
  /\ pc = "GNT_Returned"
  /\ counter = 2
  /\ hist.ops = <<"process_logits", "device_copy", "read_next", "append">>
  /\ hist.appendedAt = 2

\* ---------------------------------------------------------------- C7
\* C7: when process_logits or the device copy fails, GenerateNextToken returns
\* exactly that status without appending, and the run ends with that status
\* and no output.
C7_StepFailureAborts ==
  (~IsOK(hist.failure)) =>
    /\ pc \in {"GNT_Returned", "Done"}
    /\ gntStatus = hist.failure
    /\ sequences = hist.seqBefore
    /\ pc = "Done" =>
         (result = "returned" /\ retStatus = hist.failure /\ ~output.written)

C7_Witness ==
  /\ pc = "Done"
  /\ hist.failure \in DeviceCopyFailures
  /\ hist.stepsDone >= 1
  /\ retStatus = hist.failure

\* ---------------------------------------------------------------- C8
\* C8: after N completed steps of a run that passed Initialize every sequence
\* has length prompt length + N, and all sequences have the same length at the
\* start of every step; a successful GenerateNextToken adds one token to each.
C8_LengthIsPromptPlusSteps ==
  (execCalls = 1 /\ IsOK(initStatus)) =>
    /\ pc \in {"LoopTop", "Subgraph", "Finalizing"} =>
         /\ sequences.current_length = hist.promptLen + hist.stepsDone
         /\ \A b \in DOMAIN sequences.tokens :
              Len(sequences.tokens[b]) = hist.promptLen + hist.stepsDone
    /\ (pc = "GNT_Returned" /\ IsOK(gntStatus)) =>
         \A b \in DOMAIN sequences.tokens :
           Len(sequences.tokens[b]) = Len(hist.seqBefore.tokens[b]) + 1

C8_Witness ==
  /\ pc = "LoopTop"
  /\ hist.stepsDone = 2
  /\ Len(sequences.tokens) = 2
  /\ finished[1] /\ ~finished[2]

\* ---------------------------------------------------------------- C9
\* C9: in a run that passed Initialize no sequence is ever longer than
\* max_length and at most max_length - prompt length steps are executed.
C9_BoundedByMaxLength ==
  (execCalls = 1 /\ IsOK(initStatus)) =>
    /\ sequences.current_length <= parameters.max_length
    /\ hist.stepsDone <= parameters.max_length - hist.promptLen

\* ---------------------------------------------------------------- C10
\* C10: Compute reports success only after Initialize and Execute both ran and
\* succeeded and the loop wrote its output.
C10_SuccessMeansRunCompleted ==
  (pc = "Done" /\ result = "returned" /\ IsOK(retStatus)) =>
    /\ initCalls = 1
    /\ IsOK(initStatus)
    /\ execCalls = 1
    /\ output.written

\* ---------------------------------------------------------------- C11
\* C11: CopyTensor takes exactly one path, decided by the device types: CPU to
\* GPU uploads, GPU to CPU downloads, CPU to CPU copies all SizeInBytes bytes
\* of src into dst.
C11_PathFromDeviceTypes ==
  dt_op = "CopyTensor" =>
    /\ Len(dt_paths) = 1
    /\ (dt_src.device = "CPU" /\ dt_dst.device = "GPU") => dt_paths = <<"upload">>
    /\ (dt_src.device = "GPU" /\ dt_dst.device = "CPU") => dt_paths = <<"download">>
    /\ (dt_src.device = "CPU" /\ dt_dst.device = "CPU") =>
         (dt_paths = <<"memcpy">> /\ dt_dst.data = dt_src.data)

C11_Witness ==
  /\ dt_op = "CopyTensor"
  /\ dt_src.device = "CPU"
  /\ dt_dst.device = "CPU"
  /\ dt_dst.data = <<1, 0>>

\* ---------------------------------------------------------------- C12
SameDevicePair ==
  dt_src.device = dt_dst.device /\ dt_src.device \in {"CPU", "GPU"}

\* C12 (as stated): for CPU to CPU and GPU to GPU, CanCopy accepts the copy and
\* CopyTensor duplicates the memory instead of uploading or downloading.
C12_SameDeviceSupported ==
  SameDevicePair =>
    /\ dt_op = "CanCopy" => dt_can
    /\ dt_op = "CopyTensor" => dt_paths = <<"memcpy">>

\* C12 (amended): CanCopy rejects CPU to CPU and GPU to GPU; CopyTensor, when
\* called all the same, duplicates the memory for CPU to CPU and takes the
\* upload path, leaving dst to the JavaScript side, for GPU to GPU.
C12_SameDeviceFallback ==
  SameDevicePair =>
    /\ dt_op = "CanCopy" => ~dt_can
    /\ (dt_op = "CopyTensor" /\ dt_src.device = "CPU") =>
         (dt_paths = <<"memcpy">> /\ dt_dst.data = dt_src.data)
    /\ (dt_op = "CopyTensor" /\ dt_src.device = "GPU") => dt_paths = <<"upload">>

C12_Witness ==
  /\ dt_op = "CanCopy"
  /\ dt_src.device = "GPU"
  /\ dt_dst.device = "GPU"
  /\ ~dt_can

C14_MaskedTokenNeverAppended ==
  \A b \in DOMAIN sequences.tokens :
    \A i \in DOMAIN sequences.tokens[b] :
      i > hist.promptLen => sequences.tokens[b][i] \notin ctx.vocab_mask

\* ---------------------------------------------------------------- C15
\* C15: with the allocator available, Initialize succeeds exactly when
\* max_length is present and scalar, min_length is absent or scalar and
\* input_ids is 2-D; otherwise it reports the first invalid input in the order
\* max_length, min_length, input_ids, and an absent min_length is never reported.
C15_InitializeOkIff ==
  (pc = "InitReturned" /\ IsOK(ctx.alloc)) =>
    LET maxBad == ~ctx.max_length.present \/ ~IsScalar(ctx.max_length.shape)
        minBad == ctx.min_length.present /\ ~IsScalar(ctx.min_length.shape)
        idsBad == Len(ctx.input_ids) # 2
    IN /\ IsOK(initStatus) <=> (~maxBad /\ ~minBad /\ ~idsBad)
       /\ maxBad => initStatus.name = "max_length"
       /\ (~maxBad /\ minBad) => initStatus.name = "min_length"
       /\ (~maxBad /\ ~minBad /\ idsBad) => initStatus.name = "input_ids"
       /\ ~ctx.min_length.present => initStatus.name # "min_length"

C15_Witness ==
  /\ pc = "InitReturned"
  /\ IsOK(ctx.alloc)
  /\ ctx.max_length.present /\ IsScalar(ctx.max_length.shape)
  /\ ctx.min_length.present /\ ~IsScalar(ctx.min_length.shape)
  /\ Len(ctx.input_ids) = 1
  /\ initStatus.name = "min_length"

\* ---------------------------------------------------------------- C16
\* C16: the logits processor list is initialized exactly when Initialize
\* returned OK on a run without a CUDA stream, and it is then built from the
\* validated parameters with no_repeat_ngram_size already forced to 0.
C16_ProcessorsFromAdjustedParams ==
  /\ logits_processors_.inited <=>
       (InitializeReturned /\ IsOK(initStatus) /\ cuda_stream_ = "null")
  /\ logits_processors_.inited =>
       /\ logits_processors_.no_repeat_ngram_size = 0
       /\ logits_processors_.min_length = parameters.min_length
       /\ Len(ctx.input_ids) = 2
       /\ ctx.max_length.present /\ IsScalar(ctx.max_length.shape)

C16_Witness ==
  /\ pc = "LoopTop"
  /\ logits_processors_.inited
  /\ parameters_.no_repeat_ngram_size = 2

\* ---------------------------------------------------------------- C17
\* C17: a call without the 'decoder' session state or without the feeds/fetches
\* manager ends in a thrown contract failure; Initialize and Execute are not
\* invoked and no device function is handed out.
C17_EnforceBeforeConstruction ==
  (pc # "Idle" /\ (~ctx.decoder \/ ~ffm)) =>
    /\ pc = "Done"
    /\ result = "threw"
    /\ initCalls = 0
    /\ execCalls = 0
    /\ funcs = NoFuncs
    /\ ~output.written

C17_Witness ==
  /\ pc = "Done"
  /\ result = "threw"
  /\ ctx.decoder
  /\ ~ffm

\* ---------------------------------------------------------------- C18
\* C18: for float and for float16 output, every device function handed to the
\* loop is callable: the injected one when it was registered, the CPU one otherwise.
C18_EveryDeviceFunctionSet ==
  pc = "Constructed" =>
    \A f \in Fp32Funcs : funcs[f] \in {"injected", "cpu"}

\* ---------------------------------------------------------------- C19
\* C19: an Initialize that fails leaves the run parameters and the logits
\* processor list exactly as they were when it was called.
C19_FailedInitializeChangesNothing ==
  [][ (pc = "Constructed" /\ pc' = "InitReturned" /\ ~IsOK(initStatus')) =>
        (parameters' = parameters /\ logits_processors_' = logits_processors_) ]_vars

C19_Witness ==
  /\ pc = "InitReturned"
  /\ initStatus.name = "input_ids"
  /\ parameters.output_scores
  /\ parameters.no_repeat_ngram_size = 2
  /\ ~logits_processors_.inited

\* ---------------------------------------------------------------- C20
\* C20: CanCopy accepts exactly the pairs of one CPU and one GPU device, in
\* either direction, and for every accepted pair CopyTensor uploads when dst is
\* GPU, downloads when src is GPU, and never takes the memcpy branch.
C20_CanCopyAgreesWithCopyTensor ==
  /\ dt_op = "CanCopy" =>
       (dt_can <=> {dt_src.device, dt_dst.device} = {"CPU", "GPU"})
  /\ (dt_op = "CopyTensor" /\ {dt_src.device, dt_dst.device} = {"CPU", "GPU"}) =>
       /\ dt_dst.device = "GPU" => dt_paths = <<"upload">>
       /\ dt_src.device = "GPU" => dt_paths = <<"download">>
       /\ \A i \in DOMAIN dt_paths : dt_paths[i] # "memcpy"

C20_Witness ==
  /\ dt_op = "CanCopy"
  /\ dt_src.device = "GPU"
  /\ dt_dst.device = "CPU"
  /\ dt_can

====
